---- MODULE Spec2Model ----
(***************************************************************************)
(* A model of src/api/client.go: the HTTP client of the fusis control      *)
(* plane.  A Go string is a sequence of one-character strings, so that     *)
(* trimming, joining, splitting and quoting are computed character by      *)
(* character as the Go library computes them.                              *)
(***************************************************************************)
EXTENDS Integers, Sequences, FiniteSets, TLC

(***************************************************************************)
(* Bounds of the model.                                                    *)
(***************************************************************************)
NumCallers == 2      \* goroutines sharing one *Client (ConcSpec)
MaxBodyLen == 4      \* bytes a response body delivers
MaxLocLen == 3       \* characters of a Location header
MaxIdLen == 1        \* characters of a service / destination id
MaxBaseLen == 3      \* characters of a base address (PathSpec)
MaxSegs == 2         \* number of segments given to path (PathSpec)

(***************************************************************************)
(* HTTP status codes named by the code.                                    *)
(***************************************************************************)
StatusOK == 200
StatusCreated == 201
StatusNoContent == 204
StatusNotFound == 404

\* Other status codes a server may answer with.
OtherStatuses == {400, 500}
Statuses == {StatusOK, StatusCreated, StatusNoContent, StatusNotFound} \cup OtherStatuses

(***************************************************************************)
(* Strings.                                                                *)
(***************************************************************************)
Strings(A, n) == UNION {[1..k -> A] : k \in 0..n}

BodyAlphabet == {"[", "]", "{", "}", "\""}
LocAlphabet == {"/", "a"}
IdAlphabet == {"5", "%"}
BaseAlphabet == {"h", "/"}
SegAlphabet == {"s", "/"}
HexDigits == {"0", "1", "2", "3", "4", "5", "6", "7", "8", "9",
              "a", "b", "c", "d", "e", "f", "A", "B", "C", "D", "E", "F"}

Bodies == Strings(BodyAlphabet, MaxBodyLen)
Locations == Strings(LocAlphabet, MaxLocLen)
Ids == Strings(IdAlphabet, MaxIdLen)

Str_services == <<"s", "e", "r", "v", "i", "c", "e", "s">>
Str_destinations == <<"d", "e", "s", "t", "i", "n", "a", "t", "i", "o", "n", "s">>
Str_RequestFailed ==
  <<"R", "e", "q", "u", "e", "s", "t", " ", "f", "a", "i", "l", "e", "d", ".", " ",
    "S", "t", "a", "t", "u", "s", " ", "C", "o", "d", "e", ":", " ">>
Str_Body == <<".", " ", "B", "o", "d", "y", ":", " ">>
Str_UnableToUnmarshal ==
  <<"u", "n", "a", "b", "l", "e", " ", "t", "o", " ", "u", "n", "m", "a", "r", "s",
    "h", "a", "l", " ", "b", "o", "d", "y", " ">>
Str_NoSuchService ==
  <<"n", "o", " ", "s", "u", "c", "h", " ", "s", "e", "r", "v", "i", "c", "e">>

\* Whether needle occurs in hay as a contiguous substring (strings.Contains).
Contains(hay, needle) ==
  \E i \in 0..(Len(hay) - Len(needle)) : SubSeq(hay, i + 1, i + Len(needle)) = needle

\* strings.TrimRight(s, cutset): s without all trailing characters of cutset.
RECURSIVE TrimRight(_, _)
TrimRight(s, cutset) ==
  IF Len(s) > 0 /\ s[Len(s)] \in cutset
    THEN TrimRight(SubSeq(s, 1, Len(s) - 1), cutset)
    ELSE s

\* strings.Join(elems, sep).
RECURSIVE Join(_, _)
Join(elems, sep) ==
  IF Len(elems) = 0 THEN <<>>
  ELSE IF Len(elems) = 1 THEN elems[1]
  ELSE elems[1] \o sep \o Join(Tail(elems), sep)

\* strings.Index(s, c) for a one-character c, 1-based; 0 when c is absent.
Index(s, c) ==
  IF \E i \in 1..Len(s) : s[i] = c
    THEN CHOOSE i \in 1..Len(s) : s[i] = c /\ \A j \in 1..(i - 1) : s[j] # c
    ELSE 0

\* strings.Split(s, sep) for a one-character sep: always at least one part.
RECURSIVE Split(_, _)
Split(s, sep) ==
  LET i == Index(s, sep) IN
    IF i = 0 THEN <<s>>
    ELSE <<SubSeq(s, 1, i - 1)>> \o Split(SubSeq(s, i + 1, Len(s)), sep)

\* The decimal digits of a natural number (fmt's %v of an int).
Digit(d) == <<"0", "1", "2", "3", "4", "5", "6", "7", "8", "9">>[d + 1]
RECURSIVE Itoa(_)
Itoa(n) == IF n < 10 THEN <<Digit(n)>> ELSE Itoa(n \div 10) \o <<Digit(n % 10)>>

\* fmt's %q of a string (strconv.Quote): the text in double quotes, with the
\* double quote, the backslash and the newline escaped.
QuoteChar(c) ==
  IF c = "\"" THEN <<"\\", "\"">>
  ELSE IF c = "\\" THEN <<"\\", "\\">>
  ELSE IF c = "\n" THEN <<"\\", "n">>
  ELSE <<c>>
RECURSIVE QuoteChars(_)
QuoteChars(s) == IF Len(s) = 0 THEN <<>> ELSE QuoteChar(Head(s)) \o QuoteChars(Tail(s))
Quote(s) == <<"\"">> \o QuoteChars(s) \o <<"\"">>

(***************************************************************************)
(* Errors.  An error is a record of its kind and its message.              *)
(***************************************************************************)
NilErr == [kind |-> "nil", msg |-> <<>>]
ErrNoSuchService == [kind |-> "sentinel", msg |-> Str_NoSuchService]
TransportErrs ==
  {[kind |-> "transport", msg |-> <<k>>] : k \in {"dial", "timeout"}}
ErrParseURL == [kind |-> "url", msg |-> <<"parse">>]
ErrMarshal == [kind |-> "marshal", msg |-> <<"json">>]
ErrRead == [kind |-> "read", msg |-> <<"unexpected EOF">>]

(***************************************************************************)
(* Responses.  A body is the stream the transport hands over: the bytes it *)
(* delivers, and whether it then ends in a read error instead of EOF.      *)
(* A header is the list of its <<name, value>> lines.                      *)
(***************************************************************************)
Str_Location == <<"Location">>
NoBody == [data |-> <<>>, readErr |-> FALSE]
NoResp == [StatusCode |-> 0, Body |-> NoBody, Header |-> <<>>]

\* http.Header.Get: the value of the first line of that name, "" when absent.
HeaderGet(h, name) ==
  IF \E i \in 1..Len(h) : h[i][1] = name
    THEN h[CHOOSE i \in 1..Len(h) : h[i][1] = name /\ \A j \in 1..(i - 1) : h[j][1] # name][2]
    ELSE <<>>

\* ioutil.ReadAll: the bytes read, and the error unless the stream ended in EOF.
ReadAll(body) == [data |-> body.data, err |-> IF body.readErr THEN ErrRead ELSE NilErr]

\* The responses a server may give: any status with any body and no Location
\* header, or any status with an empty body and a Location header.
Responses(bodies, locs) ==
  {[StatusCode |-> st, Body |-> [data |-> b, readErr |-> re], Header |-> <<>>] :
      st \in Statuses, b \in bodies, re \in BOOLEAN}
  \cup
  {[StatusCode |-> st, Body |-> NoBody, Header |-> <<<<Str_Location, l>>>>] :
      st \in Statuses, l \in locs}

(***************************************************************************)
(* encoding/json on the texts of BodyAlphabet: an empty object, a string   *)
(* without escapes, an empty array and an array of one value.              *)
(***************************************************************************)
IsJSONString(s) ==
  /\ Len(s) >= 2
  /\ s[1] = "\"" /\ s[Len(s)] = "\""
  /\ \A i \in 2..(Len(s) - 1) : s[i] \notin {"\"", "\\"}

RECURSIVE IsJSONValue(_)
IsJSONValue(s) ==
  \/ s = <<"{", "}">>
  \/ IsJSONString(s)
  \/ /\ Len(s) >= 2
     /\ s[1] = "[" /\ s[Len(s)] = "]"
     /\ (Len(s) = 2 \/ IsJSONValue(SubSeq(s, 2, Len(s) - 1)))

JSONKind(s) ==
  IF ~IsJSONValue(s) THEN "invalid"
  ELSE IF s[1] = "{" THEN "object"
  ELSE IF s[1] = "[" THEN "array"
  ELSE "string"

ErrSyntax == [kind |-> "json", msg |-> <<"SyntaxError">>]
ErrType == [kind |-> "json", msg |-> <<"UnmarshalTypeError">>]

\* *ipvs.Service: nil, or a pointer to a Service (the texts of BodyAlphabet set
\* none of its fields).
NilSvc == [nil |-> TRUE]
ZeroSvc == [nil |-> FALSE]
\* []*ipvs.Service: nil, or a (possibly empty) slice.
NilServices == [nil |-> TRUE, items |-> <<>>]
EmptyServices == [nil |-> FALSE, items |-> <<>>]

\* json.Unmarshal(data, &svc), svc a nil *ipvs.Service.  A text that is not JSON
\* is rejected before anything is stored.  For a JSON value the pointer is
\* allocated first; a value that is not an object is then skipped and reported
\* as an UnmarshalTypeError.
UnmarshalService(data) ==
  LET k == JSONKind(data) IN
    IF k = "invalid" THEN [obj |-> NilSvc, err |-> ErrSyntax]
    ELSE IF k = "object" THEN [obj |-> ZeroSvc, err |-> NilErr]
    ELSE [obj |-> ZeroSvc, err |-> ErrType]

\* json.Unmarshal(data, &services), services a nil []*ipvs.Service.  An array
\* grows the slice by one element per value and decodes the value into it; an
\* empty array stores an empty slice; any other JSON value is skipped and
\* reported as an UnmarshalTypeError.
UnmarshalServices(data) ==
  LET k == JSONKind(data) IN
    IF k = "invalid" THEN [obj |-> NilServices, err |-> ErrSyntax]
    ELSE IF k # "array" THEN [obj |-> NilServices, err |-> ErrType]
    ELSE IF Len(data) = 2 THEN [obj |-> EmptyServices, err |-> NilErr]
    ELSE LET e == UnmarshalService(SubSeq(data, 2, Len(data) - 1)) IN
           [obj |-> [nil |-> FALSE, items |-> <<e.obj>>], err |-> e.err]

\* json.Unmarshal(data, obj), by the type obj points to.
Unmarshal(data, type) ==
  IF type = "*ipvs.Service" THEN UnmarshalService(data) ELSE UnmarshalServices(data)

\* decode(body, obj), obj a pointer to a nil variable of the given type: what
\* is left in the variable, and the error.
decode(body, type) ==
  LET r == ReadAll(body)
      zero == IF type = "*ipvs.Service" THEN NilSvc ELSE NilServices
  IN
    IF r.err # NilErr THEN [obj |-> zero, err |-> r.err]
    ELSE LET u == Unmarshal(r.data, type) IN
      IF u.err # NilErr
        THEN [obj |-> u.obj,
              err |-> [kind |-> "decode",
                       msg |-> Str_UnableToUnmarshal \o Quote(r.data)
                               \o <<":", " ">> \o u.err.msg]]
        ELSE [obj |-> u.obj, err |-> NilErr]

\* encode(obj): json.Marshal fails for an entity it cannot serialize.
encode(obj) ==
  IF obj.marshalable THEN [json |-> TRUE, err |-> NilErr]
  ELSE [json |-> FALSE, err |-> ErrMarshal]

\* formatError(resp): ReadAll's error is dropped, the bytes read are quoted.
\* (a variant that writes the body with %s)
formatErrorMut(resp) ==
  [kind |-> "generic",
   msg |-> Str_RequestFailed \o Itoa(resp.StatusCode) \o Str_Body \o ReadAll(resp.Body).data]
formatError(resp) ==
  LET body == ReadAll(resp.Body).data IN
    [kind |-> "generic",
     msg |-> Str_RequestFailed \o Itoa(resp.StatusCode) \o Str_Body \o Quote(body)]

\* (c Client) path(paths...).
\* (a variant that does not trim the base address)
pathMut(c, paths) == Join(<<c.Addr>> \o paths, <<"/">>)
path(c, paths) == Join(<<TrimRight(c.Addr, {"/"})>> \o paths, <<"/">>)

\* What a call of path leaves in the shared client: the receiver is a copy.
\* (a variant with a pointer receiver that builds the path in c.Addr)
ClientAfterPathMut(c, paths) == [c EXCEPT !.Addr = path(c, paths)]
ClientAfterPath(c, paths) == c

\* idFromLocation(resp).
\* (a variant that takes parts[0])
idFromLocationMut(resp) == Split(HeaderGet(resp.Header, Str_Location), "/")[1]
idFromLocation(resp) ==
  LET parts == Split(HeaderGet(resp.Header, Str_Location), "/") IN
    parts[Len(parts)]

(***************************************************************************)
(* The HTTP client.                                                        *)
(***************************************************************************)
\* url.Parse on the characters of the model: a % must start an escape of two
\* hexadecimal digits.
ValidURL(url) ==
  \A i \in 1..Len(url) :
    url[i] = "%" => /\ i + 2 <= Len(url)
                    /\ url[i + 1] \in HexDigits
                    /\ url[i + 2] \in HexDigits

\* http.NewRequest(method, url, nil).
NewRequest(method, url) ==
  IF ValidURL(url) THEN [req |-> [method |-> method, url |-> url], err |-> NilErr]
  ELSE [req |-> [method |-> method, url |-> <<>>], err |-> ErrParseURL]

\* What c.HttpClient.Get / Post / Do may return for a request: an error and no
\* response (the URL does not parse, or the transport fails), or a response.
Outcomes(url, resps) ==
  IF ~ValidURL(url) THEN {[err |-> ErrParseURL, resp |-> NoResp]}
  ELSE {[err |-> e, resp |-> NoResp] : e \in TransportErrs}
       \cup {[err |-> NilErr, resp |-> r] : r \in resps}
NoOutcome == [err |-> NilErr, resp |-> NoResp]

(***************************************************************************)
(* The six operations, from the return of the HTTP client on.  A result is *)
(* the value and the error returned and the number of times the response   *)
(* body was closed.                                                        *)
(***************************************************************************)
NoValue == <<>>
Result(val, err) == [val |-> val, err |-> err, closes |-> 0]

\* defer resp.Body.Close(): runs on every return after it.
\* (a variant that closes on the success path only)
DeferCloseMut(r) == IF r.err = NilErr THEN [r EXCEPT !.closes = @ + 1] ELSE r
DeferClose(r) == [r EXCEPT !.closes = @ + 1]

\* GetServices (a variant that decodes on 204 as on 200)
GetServicesResultMut(t) ==
  IF t.err # NilErr THEN Result(NilServices, t.err)
  ELSE DeferClose(
    IF t.resp.StatusCode \in {StatusOK, StatusNoContent}
      THEN LET d == decode(t.resp.Body, "[]*ipvs.Service") IN
             Result(d.obj, d.err)
    ELSE Result(NilServices, formatError(t.resp)))
GetServicesResult(t) ==
  IF t.err # NilErr THEN Result(NilServices, t.err)
  ELSE DeferClose(
    IF t.resp.StatusCode = StatusOK
      THEN LET d == decode(t.resp.Body, "[]*ipvs.Service") IN
             Result(d.obj, d.err)
    ELSE IF t.resp.StatusCode = StatusNoContent
      THEN Result(EmptyServices, NilErr)
    ELSE Result(NilServices, formatError(t.resp)))

\* GetService (a variant without the 404 case)
GetServiceResultMut(t) ==
  IF t.err # NilErr THEN Result(NilSvc, t.err)
  ELSE DeferClose(
    IF t.resp.StatusCode = StatusOK
      THEN LET d == decode(t.resp.Body, "*ipvs.Service") IN
             Result(d.obj, d.err)
    ELSE Result(NilSvc, formatError(t.resp)))
GetServiceResult(t) ==
  IF t.err # NilErr THEN Result(NilSvc, t.err)
  ELSE DeferClose(
    IF t.resp.StatusCode = StatusOK
      THEN LET d == decode(t.resp.Body, "*ipvs.Service") IN
             Result(d.obj, d.err)
    ELSE IF t.resp.StatusCode = StatusNotFound
      THEN Result(NilSvc, ErrNoSuchService)
    ELSE Result(NilSvc, formatError(t.resp)))

CreateServiceResult(t) ==
  IF t.err # NilErr THEN Result(<<>>, t.err)
  ELSE DeferClose(
    IF t.resp.StatusCode # StatusCreated
      THEN Result(<<>>, formatError(t.resp))
    ELSE Result(idFromLocation(t.resp), NilErr))

\* DeleteService (a variant that accepts 204 as well)
DeleteServiceResultMut(t) ==
  IF t.err # NilErr THEN Result(NoValue, t.err)
  ELSE DeferClose(
    IF t.resp.StatusCode \notin {StatusOK, StatusNoContent}
      THEN Result(NoValue, formatError(t.resp))
    ELSE Result(NoValue, NilErr))
DeleteServiceResult(t) ==
  IF t.err # NilErr THEN Result(NoValue, t.err)
  ELSE DeferClose(
    IF t.resp.StatusCode # StatusOK
      THEN Result(NoValue, formatError(t.resp))
    ELSE Result(NoValue, NilErr))

AddDestinationResult(t) ==
  IF t.err # NilErr THEN Result(<<>>, t.err)
  ELSE DeferClose(
    IF t.resp.StatusCode # StatusCreated
      THEN Result(<<>>, formatError(t.resp))
    ELSE Result(idFromLocation(t.resp), NilErr))

DeleteDestinationResult(t) ==
  IF t.err # NilErr THEN Result(NoValue, t.err)
  ELSE DeferClose(
    IF t.resp.StatusCode # StatusOK
      THEN Result(NoValue, formatError(t.resp))
    ELSE Result(NoValue, NilErr))

\* The path segments each operation hands to path.
GetServicesPaths == <<Str_services>>
GetServicePaths(id) == <<Str_services, id>>
CreateServicePaths == <<Str_services>>
DeleteServicePaths(id) == <<Str_services, id>>
AddDestinationPaths(dst) == <<Str_services, dst.ServiceId, Str_destinations>>
DeleteDestinationPaths(serviceId, destinationId) ==
  <<Str_services, serviceId, Str_destinations, destinationId>>

(***************************************************************************)
(* The six operations, up to the call of the HTTP client: either the       *)
(* request handed to it, or the result returned without calling it.        *)
(***************************************************************************)
Sent(method, url, paths) ==
  [sent |-> TRUE, method |-> method, url |-> url, early |-> Result(NoValue, NilErr),
   pathCalled |-> TRUE, paths |-> paths]
Early(r, pathCalled, paths) ==
  [sent |-> FALSE, method |-> "", url |-> <<>>, early |-> r,
   pathCalled |-> pathCalled, paths |-> paths]

GetServicesSend(c) == Sent("GET", path(c, GetServicesPaths), GetServicesPaths)

GetServiceSend(c, id) == Sent("GET", path(c, GetServicePaths(id)), GetServicePaths(id))

CreateServiceSend(c, svc) ==
  LET j == encode(svc) IN
    IF j.err # NilErr THEN Early(Result(<<>>, j.err), FALSE, <<>>)
    ELSE Sent("POST", path(c, CreateServicePaths), CreateServicePaths)

DeleteServiceSend(c, id) ==
  LET nr == NewRequest("DELETE", path(c, DeleteServicePaths(id))) IN
    IF nr.err # NilErr THEN Early(Result(NoValue, nr.err), TRUE, DeleteServicePaths(id))
    ELSE Sent(nr.req.method, nr.req.url, DeleteServicePaths(id))

AddDestinationSend(c, dst) ==
  LET j == encode(dst) IN
    IF j.err # NilErr THEN Early(Result(<<>>, j.err), FALSE, <<>>)
    ELSE Sent("POST", path(c, AddDestinationPaths(dst)), AddDestinationPaths(dst))

\* DeleteDestination (a variant that ignores the error of http.NewRequest)
DeleteDestinationSendMut(c, serviceId, destinationId) ==
  LET paths == DeleteDestinationPaths(serviceId, destinationId) IN
    Sent("DELETE", path(c, paths), paths)
DeleteDestinationSend(c, serviceId, destinationId) ==
  LET paths == DeleteDestinationPaths(serviceId, destinationId)
      nr == NewRequest("DELETE", path(c, paths)) IN
    IF nr.err # NilErr THEN Early(Result(NoValue, nr.err), TRUE, paths)
    ELSE Sent(nr.req.method, nr.req.url, paths)

(***************************************************************************)
(* State.                                                                  *)
(***************************************************************************)
VARIABLES
  client,   \* the shared *Client: Addr and HttpClient
  addr0,    \* the address NewClient was given
  frame,    \* per caller: the call blocked in the HTTP client, or NoFrame
  ret,      \* per caller: what its last call returned, or NoRet
  pbase,    \* PathSpec: the base address
  psegs,    \* PathSpec: the segments
  pout,     \* PathSpec: what path returned
  pdone     \* PathSpec: whether path has returned

vars == <<client, addr0, frame, ret, pbase, psegs, pout, pdone>>

Callers == 1..NumCallers
Addrs == {<<"h">>, <<"h", "/">>}
Services == {[marshalable |-> m] : m \in BOOLEAN}
Destinations(ids) == {[marshalable |-> m, ServiceId |-> id] : m \in BOOLEAN, id \in ids}

\* NewClient(addr): timeouts in seconds.
NewClient(addr) ==
  [Addr |-> addr,
   HttpClient |-> [DialTimeout |-> 30, KeepAlive |-> 30, TLSHandshakeTimeout |-> 30,
                   MaxIdleConnsPerHost |-> -1, DisableKeepAlives |-> TRUE,
                   Timeout |-> 60]]

NoFrame == [op |-> "none", args |-> <<>>, method |-> "", url |-> <<>>, nreq |-> 0]
NoRet == [op |-> "none", val |-> NoValue, err |-> NilErr, closes |-> 0, nreq |-> 0,
          t |-> NoOutcome]

Init ==
  /\ addr0 \in Addrs
  /\ client = NewClient(addr0)
  /\ frame = [c \in Callers |-> NoFrame]
  /\ ret = [c \in Callers |-> NoRet]
  /\ pbase = <<>> /\ psegs = <<>> /\ pout = <<>> /\ pdone = FALSE

\* Caller c enters operation op: its code runs up to the HTTP client, which
\* blocks, or up to an early return.
Call(c, op, args, s) ==
  /\ frame[c] = NoFrame
  /\ ret[c] = NoRet
  /\ client' = IF s.pathCalled THEN ClientAfterPath(client, s.paths) ELSE client
  /\ IF s.sent
       THEN /\ frame' = [frame EXCEPT ![c] =
                 [op |-> op, args |-> args, method |-> s.method, url |-> s.url, nreq |-> 1]]
            /\ ret' = [ret EXCEPT ![c] = NoRet]
       ELSE /\ ret' = [ret EXCEPT ![c] =
                 [op |-> op, val |-> s.early.val, err |-> s.early.err,
                  closes |-> s.early.closes, nreq |-> 0, t |-> NoOutcome]]
            /\ UNCHANGED frame
  /\ UNCHANGED <<addr0, pbase, psegs, pout, pdone>>

\* The HTTP client returns outcome t to caller c, whose operation runs to its
\* return with result r.
Return(c, op, t, r) ==
  /\ frame[c].op = op
  /\ ret' = [ret EXCEPT ![c] =
       [op |-> op, val |-> r.val, err |-> r.err, closes |-> r.closes,
        nreq |-> frame[c].nreq, t |-> t]]
  /\ frame' = [frame EXCEPT ![c] = NoFrame]
  /\ UNCHANGED <<client, addr0, pbase, psegs, pout, pdone>>

GetServicesCall(c) == Call(c, "GetServices", <<>>, GetServicesSend(client))
GetServicesReturn(c, resps) ==
  /\ frame[c].op = "GetServices"
  /\ \E t \in Outcomes(frame[c].url, resps) :
       Return(c, "GetServices", t, GetServicesResult(t))

GetServiceCall(c, ids) ==
  \E id \in ids : Call(c, "GetService", <<id>>, GetServiceSend(client, id))
GetServiceReturn(c, resps) ==
  /\ frame[c].op = "GetService"
  /\ \E t \in Outcomes(frame[c].url, resps) :
       Return(c, "GetService", t, GetServiceResult(t))

CreateServiceCall(c) ==
  \E svc \in Services : Call(c, "CreateService", <<>>, CreateServiceSend(client, svc))
CreateServiceReturn(c, resps) ==
  /\ frame[c].op = "CreateService"
  /\ \E t \in Outcomes(frame[c].url, resps) :
       Return(c, "CreateService", t, CreateServiceResult(t))

DeleteServiceCall(c, ids) ==
  \E id \in ids : Call(c, "DeleteService", <<id>>, DeleteServiceSend(client, id))
DeleteServiceReturn(c, resps) ==
  /\ frame[c].op = "DeleteService"
  /\ \E t \in Outcomes(frame[c].url, resps) :
       Return(c, "DeleteService", t, DeleteServiceResult(t))

AddDestinationCall(c, ids) ==
  \E dst \in Destinations(ids) :
    Call(c, "AddDestination", <<dst.ServiceId>>, AddDestinationSend(client, dst))
AddDestinationReturn(c, resps) ==
  /\ frame[c].op = "AddDestination"
  /\ \E t \in Outcomes(frame[c].url, resps) :
       Return(c, "AddDestination", t, AddDestinationResult(t))

DeleteDestinationCall(c, ids) ==
  \E sid \in ids, did \in ids :
    Call(c, "DeleteDestination", <<sid, did>>, DeleteDestinationSend(client, sid, did))
DeleteDestinationReturn(c, resps) ==
  /\ frame[c].op = "DeleteDestination"
  /\ \E t \in Outcomes(frame[c].url, resps) :
       Return(c, "DeleteDestination", t, DeleteDestinationResult(t))

\* Caller c drops what its last call returned, before its next call.
Discard(c) ==
  /\ ret[c] # NoRet
  /\ ret' = [ret EXCEPT ![c] = NoRet]
  /\ UNCHANGED <<client, addr0, frame, pbase, psegs, pout, pdone>>

\* One caller, every response of the bounds.
AllResponses == Responses(Bodies, Locations)

Next ==
  \/ GetServicesCall(1)
  \/ GetServicesReturn(1, AllResponses)
  \/ GetServiceCall(1, Ids)
  \/ GetServiceReturn(1, AllResponses)
  \/ CreateServiceCall(1)
  \/ CreateServiceReturn(1, AllResponses)
  \/ DeleteServiceCall(1, Ids)
  \/ DeleteServiceReturn(1, AllResponses)
  \/ AddDestinationCall(1, Ids)
  \/ AddDestinationReturn(1, AllResponses)
  \/ DeleteDestinationCall(1, Ids)
  \/ DeleteDestinationReturn(1, AllResponses)
  \/ Discard(1)

Spec == Init /\ [][Next]_vars

\* Several callers on one client, interleaved at the calls of the HTTP client.
ConcIds == {<<"5">>, <<"%">>}
ConcResponses ==
  {[StatusCode |-> st, Body |-> [data |-> <<"{", "}">>, readErr |-> FALSE],
    Header |-> <<<<Str_Location, <<"a", "/", "a">>>>>>] :
      st \in {StatusOK, StatusCreated, StatusNotFound}}

ConcNext ==
  \E c \in Callers :
    \/ GetServicesCall(c)
    \/ GetServicesReturn(c, ConcResponses)
    \/ GetServiceCall(c, ConcIds)
    \/ GetServiceReturn(c, ConcResponses)
    \/ CreateServiceCall(c)
    \/ CreateServiceReturn(c, ConcResponses)
    \/ DeleteServiceCall(c, ConcIds)
    \/ DeleteServiceReturn(c, ConcResponses)
    \/ AddDestinationCall(c, ConcIds)
    \/ AddDestinationReturn(c, ConcResponses)
    \/ DeleteDestinationCall(c, ConcIds)
    \/ DeleteDestinationReturn(c, ConcResponses)
    \/ Discard(c)

ConcSpec == Init /\ [][ConcNext]_vars

\* path alone, on any base address and any segments of the bounds.
Bases == Strings(BaseAlphabet, MaxBaseLen)
SegLists == Strings(Strings(SegAlphabet, 1), MaxSegs)

PathInit ==
  /\ addr0 \in Bases
  /\ client = NewClient(addr0)
  /\ frame = [c \in Callers |-> NoFrame]
  /\ ret = [c \in Callers |-> NoRet]
  /\ pbase = addr0
  /\ psegs \in SegLists
  /\ pout = <<>> /\ pdone = FALSE

PathCall ==
  /\ ~pdone
  /\ pout' = path(client, psegs)
  /\ client' = ClientAfterPath(client, psegs)
  /\ pdone' = TRUE
  /\ UNCHANGED <<addr0, frame, ret, pbase, psegs>>

PathNext == PathCall

PathSpec == PathInit /\ [][PathNext]_vars

(***************************************************************************)
(* Properties.                                                             *)
(***************************************************************************)
Returned(r) == r.op # "none"
\* The call received a response (the HTTP client returned no error).
GotResp(r) == r.nreq = 1 /\ r.t.err = NilErr
Status(r) == r.t.resp.StatusCode
BodyData(r) == r.t.resp.Body.data
\* The Location header of the response, "" when it has none.
LocationOf(r) == IF r.t.resp.Header = <<>> THEN <<>> ELSE r.t.resp.Header[1][2]
Creates == {"CreateService", "AddDestination"}
Deletes == {"DeleteService", "DeleteDestination"}

\* C1: an operation returns ErrNoSuchService exactly when it is GetService and
\* the response status is 404; GetService returns the decoded Service on 200
\* (an error when the body cannot be read or decoded), (nil, ErrNoSuchService)
\* on 404 and (nil, generic error) on every other status.
C1_SentinelOnlyGetService404 ==
  \A c \in Callers : LET r == ret[c] IN Returned(r) =>
    /\ r.err = ErrNoSuchService
         <=> (r.op = "GetService" /\ GotResp(r) /\ Status(r) = 404)
    /\ (r.op = "GetService" /\ GotResp(r)) =>
         /\ Status(r) = 200 =>
              IF r.t.resp.Body.readErr THEN r.err.kind = "read"
              ELSE IF BodyData(r) = <<"{", "}">> THEN r.val = ZeroSvc /\ r.err = NilErr
              ELSE r.err.kind = "decode"
         /\ Status(r) = 404 => r.val = NilSvc
         /\ Status(r) \notin {200, 404} => r.val = NilSvc /\ r.err.kind = "generic"

C1_Witness ==
  \E c \in Callers :
    ret[c].op = "GetService" /\ GotResp(ret[c]) /\ Status(ret[c]) = 404
    /\ ret[c].err = ErrNoSuchService

\* C2: GetServices on 204 returns an empty non-nil sequence and no error,
\* whatever the body holds; on 200 it returns what decoding the body as a JSON
\* array gives; on every other status it returns nil and a generic error.
C2_GetServicesByStatus ==
  \A c \in Callers : LET r == ret[c] IN
    (r.op = "GetServices" /\ GotResp(r)) =>
      /\ Status(r) = 204 => r.val = EmptyServices /\ r.err = NilErr
      /\ Status(r) = 200 =>
           IF r.t.resp.Body.readErr THEN r.val = NilServices /\ r.err.kind = "read"
           ELSE IF BodyData(r) = <<"[", "]">> THEN r.val = EmptyServices /\ r.err = NilErr
           ELSE IF BodyData(r) = <<"[", "{", "}", "]">>
             THEN r.val = [nil |-> FALSE, items |-> <<ZeroSvc>>] /\ r.err = NilErr
           ELSE r.err.kind = "decode"
      /\ Status(r) \notin {200, 204} => r.val = NilServices /\ r.err.kind = "generic"

C2_Witness ==
  \E c \in Callers :
    ret[c].op = "GetServices" /\ GotResp(ret[c]) /\ Status(ret[c]) = 204
    /\ ~IsJSONValue(BodyData(ret[c])) /\ BodyData(ret[c]) # <<>>
    /\ ret[c].val = EmptyServices /\ ret[c].err = NilErr

\* C3: CreateService and AddDestination succeed exactly when the status is 201,
\* and then return the text after the last '/' of the Location header: the
\* whole header when it has no '/', "" when it is absent, empty or ends in '/';
\* every other status gives ("", generic error).
C3_CreatedIdFromLocation ==
  \A c \in Callers : LET r == ret[c] IN
    (r.op \in Creates /\ GotResp(r)) =>
      /\ r.err = NilErr <=> Status(r) = 201
      /\ Status(r) # 201 => r.val = <<>> /\ r.err.kind = "generic"
      /\ Status(r) = 201 =>
           LET loc == LocationOf(r)
               id == r.val
               k == Len(loc) - Len(id)
           IN /\ k >= 0
              /\ SubSeq(loc, k + 1, Len(loc)) = id
              /\ \A i \in 1..Len(id) : id[i] # "/"
              /\ k = 0 \/ loc[k] = "/"

C3_Witness ==
  \E c \in Callers :
    /\ ret[c].op = "AddDestination" /\ GotResp(ret[c]) /\ Status(ret[c]) = 201
    /\ LocationOf(ret[c]) = <<"a", "/", "a">>
    /\ ret[c].val = <<"a">> /\ ret[c].err = NilErr

NeedsEscape(s) == \E i \in 1..Len(s) : QuoteChar(s[i]) # <<s[i]>>

C5_DeleteSucceedsOnlyOn200 ==
  \A c \in Callers : LET r == ret[c] IN
    r.op \in Deletes =>
      /\ r.err = NilErr <=> (GotResp(r) /\ Status(r) = 200)
      /\ (GotResp(r) /\ Status(r) # 200) => r.err.kind = "generic"

C5_Witness ==
  \E c \in Callers : LET r == ret[c] IN
    /\ r.op = "DeleteDestination" /\ GotResp(r) /\ Status(r) = 204
    /\ r.err.kind = "generic"

ZeroValue(op) ==
  IF op = "GetServices" THEN NilServices
  ELSE IF op = "GetService" THEN NilSvc
  ELSE <<>>

\* C6: whenever an operation returns a non-nil error, the value returned with
\* it is the zero value, also when the status is 200 and decoding fails.
C6_ErrorMeansZeroValue ==
  \A c \in Callers : LET r == ret[c] IN
    (Returned(r) /\ r.err # NilErr) => r.val = ZeroValue(r.op)

C8_BodyClosedOnEveryPath ==
  \A c \in Callers : LET r == ret[c] IN
    Returned(r) => r.closes = (IF GotResp(r) THEN 1 ELSE 0)

C8_Witness ==
  \E c \in Callers : LET r == ret[c] IN
    /\ r.op = "GetService" /\ GotResp(r) /\ Status(r) = 200
    /\ r.err.kind = "decode" /\ r.closes = 1

\* What the call gives when it runs alone on the client NewClient built.
UrlAlone(op, args) ==
  LET c == NewClient(addr0) IN
    IF op = "GetServices" THEN path(c, <<Str_services>>)
    ELSE IF op = "GetService" THEN path(c, <<Str_services, args[1]>>)
    ELSE IF op = "CreateService" THEN path(c, <<Str_services>>)
    ELSE IF op = "DeleteService" THEN path(c, <<Str_services, args[1]>>)
    ELSE IF op = "AddDestination" THEN path(c, <<Str_services, args[1], Str_destinations>>)
    ELSE path(c, <<Str_services, args[1], Str_destinations, args[2]>>)

ResultAlone(op, t) ==
  IF op = "GetServices" THEN GetServicesResult(t)
  ELSE IF op = "GetService" THEN GetServiceResult(t)
  ELSE IF op = "CreateService" THEN CreateServiceResult(t)
  ELSE IF op = "DeleteService" THEN DeleteServiceResult(t)
  ELSE IF op = "AddDestination" THEN AddDestinationResult(t)
  ELSE DeleteDestinationResult(t)

\* C9: with several callers on one client, no operation writes the client's
\* base address or transport, every request in flight is the one its call
\* sends when run alone, and every result is the one its own response gives.
C9_NoInterference ==
  /\ client = NewClient(addr0)
  /\ \A c \in Callers :
       /\ frame[c].op # "none" => frame[c].url = UrlAlone(frame[c].op, frame[c].args)
       /\ (Returned(ret[c]) /\ ret[c].nreq = 1) =>
            LET a == ResultAlone(ret[c].op, ret[c].t) IN
              ret[c].val = a.val /\ ret[c].err = a.err /\ ret[c].closes = a.closes

C9_Witness ==
  \E c, d \in Callers :
    /\ c # d
    /\ frame[c].op = "DeleteDestination"
    /\ ret[d].op = "CreateService" /\ GotResp(ret[d]) /\ ret[d].err = NilErr

\* The base address without its trailing slashes.
Stripped(base) ==
  CHOOSE p \in {SubSeq(base, 1, n) : n \in 0..Len(base)} :
    /\ Len(p) = 0 \/ p[Len(p)] # "/"
    /\ \A i \in (Len(p) + 1)..Len(base) : base[i] = "/"

RECURSIVE SlashEach(_)
SlashEach(segs) ==
  IF Len(segs) = 0 THEN <<>> ELSE <<"/">> \o Head(segs) \o SlashEach(Tail(segs))

Str_httphost == <<"h", "t", "t", "p", ":", "/", "/", "h", "o", "s", "t">>

\* C10: path returns the base address without its trailing slash followed by
\* each segment preceded by one '/', for any number of segments; a base with
\* and without a trailing slash give the same path; http://host/ with
\* [services, 5, destinations] gives http://host/services/5/destinations; and
\* every operation requests the URL of the wire-protocol table.
C10_PathJoinsSegments ==
  LET c == NewClient(pbase)
      root == Stripped(pbase)
      S == <<"/">> \o Str_services
      D == <<"/">> \o Str_destinations
  IN
  /\ pdone => pout = root \o SlashEach(psegs)
  /\ path(NewClient(pbase \o <<"/">>), psegs) = path(c, psegs)
  /\ path(NewClient(Str_httphost \o <<"/">>), <<Str_services, <<"5">>, Str_destinations>>)
       = Str_httphost \o S \o <<"/", "5">> \o D
  /\ GetServicesSend(c).url = root \o S
  /\ CreateServiceSend(c, [marshalable |-> TRUE]).url = root \o S
  /\ \A id \in Ids :
       /\ GetServiceSend(c, id).url = root \o S \o <<"/">> \o id
       /\ DeleteServiceSend(c, id).sent =>
            DeleteServiceSend(c, id).url = root \o S \o <<"/">> \o id
       /\ AddDestinationSend(c, [marshalable |-> TRUE, ServiceId |-> id]).url
            = root \o S \o <<"/">> \o id \o D
       /\ \A did \in Ids :
            DeleteDestinationSend(c, id, did).sent =>
              DeleteDestinationSend(c, id, did).url
                = root \o S \o <<"/">> \o id \o D \o <<"/">> \o did

C10_Witness ==
  /\ pdone
  /\ Len(pbase) >= 2 /\ pbase[Len(pbase)] = "/" /\ pbase[1] = "h"
  /\ Len(psegs) = 2
  /\ pout = Stripped(pbase) \o SlashEach(psegs)

====
